---- MODULE Spec2Model ----
(***************************************************************************)
(* A model of ferass, the safe wrapper around the libass C interface:      *)
(* the ownership graph Library <- Track / Renderer (src/src/library.rs,    *)
(* src/src/track.rs, src/src/render.rs), the logging callback bridge, and  *)
(* the conversions done on values that cross into the native engine.       *)
(***************************************************************************)
EXTENDS Integers, Sequences, FiniteSets, TLC

\* ------------------------------------------------------------------ bounds
\* How many Library, Track and Renderer values one run may construct.
MaxLibs == 2
MaxTracks == 2
MaxRenderers == 2

LibIds == 1..MaxLibs
TrackIds == 1..MaxTracks
RendIds == 1..MaxRenderers

\* --------------------------------------------------------------- variables
VARIABLES
    libs,       \* Library values: [st, lib]; lib is the native ASS_Library handle
    tracks,     \* Track values: [st, track, lib]
    renderers,  \* Renderer values: [st, renderer, parent]
    libDone,    \* native handle -> number of ass_library_done calls on it
    trackFree,  \* native handle -> number of ass_free_track calls on it
    rendDone,   \* native handle -> number of ass_renderer_done calls on it
    nativeCb,   \* native handle -> the callback and opaque pointer libass holds
    cbEvent,    \* what the last invocation of the trampoline did
    ffi,        \* the last wrapper call: its inputs, result and native calls
    trackData,  \* the chunk lengths the native track has been given, in order
    handles     \* the Style and Event values alive, each with index and track

lifeVars == <<libs, tracks, renderers, libDone, trackFree, rendDone>>
cbVars == <<nativeCb, cbEvent>>
ffiVars == <<ffi, trackData, handles>>

vars == <<libs, tracks, renderers, libDone, trackFree, rendDone,
          nativeCb, cbEvent, ffi, trackData, handles>>

\* A value that was never constructed.
NoLib == [st |-> "unborn", lib |-> 0]
NoTrack == [st |-> "unborn", track |-> 0, lib |-> 0]
NoRenderer == [st |-> "unborn", renderer |-> 0, parent |-> 0]

\* The slot the next constructed value takes (0 when the run's budget is used).
FreeSlot(f, ids) ==
    IF \E i \in ids : f[i].st = "unborn"
    THEN CHOOSE i \in ids : f[i].st = "unborn" /\ \A j \in ids : j < i => f[j].st # "unborn"
    ELSE 0

\* ---------------------------------------------------------------- borrows
LibBorrowed_RawPointer(l) == FALSE

\* Track<'lib> holds `lib: &'lib Library` and Renderer<'lib> holds
\* `parent: &'lib Library`: while such a value exists the Library is borrowed,
\* and the compiler accepts neither its drop nor a move out of it.
LibBorrowed(l) ==
    \/ \E t \in TrackIds : tracks[t].st = "live" /\ tracks[t].lib = l
    \/ \E r \in RendIds : renderers[r].st = "live" /\ renderers[r].parent = l

\* Style<'track, 'lib> and Event<'track, 'lib> hold `&'track Track<'lib>`:
\* while such a value exists the Track is borrowed and cannot be dropped.
TrackBorrowed(t) == \E h \in handles : h.track = t

\* ---------------------------------------------------------------- Library
\* Library::new: ass_library_init, None when it returns null.
Library_new ==
    /\ FreeSlot(libs, LibIds) # 0
    /\ \E isNull \in BOOLEAN :
        LET l == FreeSlot(libs, LibIds) IN
        IF isNull
        THEN UNCHANGED lifeVars
        ELSE /\ libs' = [libs EXCEPT ![l] = [st |-> "live", lib |-> l]]
             /\ UNCHANGED <<tracks, renderers, libDone, trackFree, rendDone>>
    /\ UNCHANGED <<cbVars, ffiVars>>

new_track_Unchecked(l) ==
    /\ libs[l].st = "live"
    /\ FreeSlot(tracks, TrackIds) # 0
    /\ \E isNull \in BOOLEAN :
        LET t == FreeSlot(tracks, TrackIds) IN
        /\ tracks' = [tracks EXCEPT ![t] = [st |-> "live",
                          track |-> IF isNull THEN 0 ELSE t, lib |-> l]]
        /\ UNCHANGED <<libs, renderers, libDone, trackFree, rendDone>>
    /\ UNCHANGED <<cbVars, ffiVars>>

\* Library::new_track: ass_new_track(self.lib), None when it returns null.
new_track(l) ==
    /\ libs[l].st = "live"
    /\ FreeSlot(tracks, TrackIds) # 0
    /\ \E isNull \in BOOLEAN :
        LET t == FreeSlot(tracks, TrackIds) IN
        IF isNull
        THEN UNCHANGED lifeVars
        ELSE /\ tracks' = [tracks EXCEPT ![t] = [st |-> "live", track |-> t, lib |-> l]]
             /\ UNCHANGED <<libs, renderers, libDone, trackFree, rendDone>>
    /\ UNCHANGED <<cbVars, ffiVars>>

\* The Renderer constructor (the `Library::new_renderer` that the Renderer
\* documentation names): a fresh native renderer that borrows the Library.
new_renderer(l) ==
    /\ libs[l].st = "live"
    /\ FreeSlot(renderers, RendIds) # 0
    /\ \E isNull \in BOOLEAN :
        LET r == FreeSlot(renderers, RendIds) IN
        IF isNull
        THEN UNCHANGED lifeVars
        ELSE /\ renderers' = [renderers EXCEPT
                    ![r] = [st |-> "live", renderer |-> r, parent |-> l]]
             /\ UNCHANGED <<libs, tracks, libDone, trackFree, rendDone>>
    /\ UNCHANGED <<cbVars, ffiVars>>

\* #[derive(Clone)] on Renderer: a field-wise copy, so the copy holds the same
\* NonNull<ASS_Renderer> and the same parent borrow.
Renderer_clone(r) ==
    /\ renderers[r].st = "live"
    /\ FreeSlot(renderers, RendIds) # 0
    /\ LET c == FreeSlot(renderers, RendIds) IN
        renderers' = [renderers EXCEPT ![c] = [st |-> "live",
                          renderer |-> renderers[r].renderer,
                          parent |-> renderers[r].parent]]
    /\ UNCHANGED <<libs, tracks, libDone, trackFree, rendDone, cbVars, ffiVars>>

\* ------------------------------------------------------------------- drops
drop_Library_NoDone(l) ==
    /\ libs[l].st = "live"
    /\ ~LibBorrowed(l)
    /\ libs' = [libs EXCEPT ![l].st = "dropped"]
    /\ UNCHANGED <<tracks, renderers, libDone, trackFree, rendDone, cbVars, ffiVars>>

\* impl Drop for Library: ass_library_done(self.lib).
drop_Library(l) ==
    /\ libs[l].st = "live"
    /\ ~LibBorrowed(l)
    /\ libs' = [libs EXCEPT ![l].st = "dropped"]
    /\ libDone' = [libDone EXCEPT ![libs[l].lib] = @ + 1]
    /\ UNCHANGED <<tracks, renderers, trackFree, rendDone, cbVars, ffiVars>>

\* impl Drop for Track: ass_free_track(self.track).
drop_Track(t) ==
    /\ tracks[t].st = "live"
    /\ ~TrackBorrowed(t)
    /\ tracks' = [tracks EXCEPT ![t].st = "dropped"]
    /\ trackFree' = [trackFree EXCEPT ![tracks[t].track] = @ + 1]
    /\ UNCHANGED <<libs, renderers, libDone, rendDone, cbVars, ffiVars>>

\* impl Drop for Renderer: ass_renderer_done(self.renderer.as_ptr()).
drop_Renderer(r) ==
    /\ renderers[r].st = "live"
    /\ renderers' = [renderers EXCEPT ![r].st = "dropped"]
    /\ rendDone' = [rendDone EXCEPT ![renderers[r].renderer] = @ + 1]
    /\ UNCHANGED <<libs, tracks, libDone, trackFree, cbVars, ffiVars>>

\* ------------------------------------------------------------ clear_fonts
clear_fonts_ByRef(l) ==
    /\ libs[l].st = "live"
    /\ ffi' = [op |-> "clear_fonts", args |-> <<l>>, ret |-> libs[l],
               native |-> <<[fn |-> "ass_clear_fonts", lib |-> libs[l].lib]>>,
               panic |-> FALSE, prev |-> "none"]
    /\ UNCHANGED <<lifeVars, cbVars, trackData, handles>>

\* Library::clear_fonts(self) -> Self: the Library is moved into the call,
\* which the compiler accepts only when nothing borrows it; ass_clear_fonts
\* runs on its handle and the same Library is handed back, not dropped.
clear_fonts(l) ==
    /\ libs[l].st = "live"
    /\ ~LibBorrowed(l)
    /\ ffi' = [op |-> "clear_fonts", args |-> <<l>>, ret |-> libs[l],
               native |-> <<[fn |-> "ass_clear_fonts", lib |-> libs[l].lib]>>,
               panic |-> FALSE, prev |-> "none"]
    /\ UNCHANGED <<lifeVars, cbVars, trackData, handles>>

\* ----------------------------------------------------------- specification
InitLife ==
    /\ libs = [l \in LibIds |-> NoLib]
    /\ tracks = [t \in TrackIds |-> NoTrack]
    /\ renderers = [r \in RendIds |-> NoRenderer]
    /\ libDone = [l \in LibIds |-> 0]
    /\ trackFree = [t \in TrackIds |-> 0]
    /\ rendDone = [r \in RendIds |-> 0]

\* No callback registered, no wrapper call made yet.
NoCb == [fn |-> "null", closure |-> "none", region |-> "none", live |-> FALSE]
NoEvent == [outcome |-> "none", closure |-> "none", level |-> "none", mess |-> <<>>]
NoCall == [op |-> "none", args |-> <<>>, ret |-> "none", native |-> <<>>,
           panic |-> FALSE, prev |-> "none"]

InitCb ==
    /\ nativeCb = [l \in LibIds |-> NoCb]
    /\ cbEvent = NoEvent

InitFfi ==
    /\ ffi = NoCall
    /\ trackData = <<>>
    /\ handles = {}

Init == InitLife /\ InitCb /\ InitFfi

Next ==
    \/ Library_new
    \/ \E l \in LibIds : new_track(l)
    \/ \E l \in LibIds : new_renderer(l)
    \/ \E r \in RendIds : Renderer_clone(r)
    \/ \E l \in LibIds : drop_Library(l)
    \/ \E t \in TrackIds : drop_Track(t)
    \/ \E r \in RendIds : drop_Renderer(r)

Spec == Init /\ [][Next]_vars

\* The same operations (Renderer values made by the constructor only) and
\* clear_fonts.
NextClear ==
    \/ Library_new
    \/ \E l \in LibIds : new_track(l)
    \/ \E l \in LibIds : new_renderer(l)
    \/ \E l \in LibIds : clear_fonts(l)
    \/ \E l \in LibIds : drop_Library(l)
    \/ \E t \in TrackIds : drop_Track(t)
    \/ \E r \in RendIds : drop_Renderer(r)

SpecClear == Init /\ [][NextClear]_vars

\* ------------------------------------------------------------- UTF-8 text
\* core::str::from_utf8, as CStr::to_str and OsString::into_string apply it:
\* TRUE when the bytes of b from index i on are well-formed UTF-8.
RECURSIVE Utf8ValidFrom(_, _)
Utf8ValidFrom(b, i) ==
    IF i > Len(b) THEN TRUE
    ELSE LET c == b[i]
             In(k, lo, hi) == k <= Len(b) /\ b[k] >= lo /\ b[k] <= hi
             Cont(k) == In(k, 128, 191)
         IN  IF c < 128 THEN Utf8ValidFrom(b, i + 1)
             ELSE IF c >= 194 /\ c <= 223
                 THEN Cont(i + 1) /\ Utf8ValidFrom(b, i + 2)
             ELSE IF c = 224
                 THEN In(i + 1, 160, 191) /\ Cont(i + 2) /\ Utf8ValidFrom(b, i + 3)
             ELSE IF (c >= 225 /\ c <= 236) \/ c = 238 \/ c = 239
                 THEN Cont(i + 1) /\ Cont(i + 2) /\ Utf8ValidFrom(b, i + 3)
             ELSE IF c = 237
                 THEN In(i + 1, 128, 159) /\ Cont(i + 2) /\ Utf8ValidFrom(b, i + 3)
             ELSE IF c = 240
                 THEN In(i + 1, 144, 191) /\ Cont(i + 2) /\ Cont(i + 3)
                      /\ Utf8ValidFrom(b, i + 4)
             ELSE IF c >= 241 /\ c <= 243
                 THEN Cont(i + 1) /\ Cont(i + 2) /\ Cont(i + 3)
                      /\ Utf8ValidFrom(b, i + 4)
             ELSE IF c = 244
                 THEN In(i + 1, 128, 143) /\ Cont(i + 2) /\ Cont(i + 3)
                      /\ Utf8ValidFrom(b, i + 4)
             ELSE FALSE

Utf8Valid(b) == Utf8ValidFrom(b, 1)

\* ------------------------------------------------------- logging callback
\* The closures a host registers, and what libass logs: a level and a message
\* pointer (null, or a NUL-terminated byte string, given without its NUL).
Closures == {"cbA", "cbB"}
Levels == 0..8
NullStr == [null |-> TRUE, bytes |-> <<>>]
FmtSamples ==
    {NullStr} \cup {[null |-> FALSE, bytes |-> b] :
                        b \in {<<>>, <<72, 105>>, <<195, 169>>, <<72, 255>>}}

\* impl From<i32> for LogLevel.
LogLevel_from(log_level) ==
    CASE log_level = 0 -> "Fatal"
      [] log_level = 1 -> "Error"
      [] log_level = 2 -> "Warn"
      [] log_level = 4 -> "Info"
      [] log_level = 6 -> "Verbose"
      [] log_level = 7 -> "Debug"
      [] OTHER -> "Application"

\* Where the pointer handed to ass_set_message_cb points: `cb`, a local
\* variable of set_message_cb holding the fat pointer to `leaked_cb`, itself a
\* local (ManuallyDrop::new moves the closure into a local, not to the heap).
CbDataRegion == "stack"

\* A stack slot of a call is gone when the call returns; heap and static
\* storage that nothing frees stays.
LiveAfterReturn(region) == region # "stack"

\* Library::set_message_cb: registers message_handler with a pointer to `cb`,
\* then returns.
set_message_cb(l, callback) ==
    /\ libs[l].st = "live"
    /\ nativeCb' = [nativeCb EXCEPT ![libs[l].lib] =
            [fn |-> "message_handler", closure |-> callback,
             region |-> CbDataRegion, live |-> LiveAfterReturn(CbDataRegion)]]
    /\ UNCHANGED <<lifeVars, cbEvent, ffiVars>>

message_handler_Deref(level, fmt, data) ==
    LET mess == IF fmt.null THEN <<>>
                ELSE IF Utf8Valid(fmt.bytes) THEN fmt.bytes ELSE <<>>
        log_lev == LogLevel_from(level)
    IN  IF data.fn = "null"
        THEN [outcome |-> "fault", closure |-> "none", level |-> log_lev, mess |-> <<>>]
        ELSE [outcome |-> "closure", closure |-> data.closure,
              level |-> log_lev, mess |-> mess]

\* message_handler on a pointer it may dereference: the message is decoded
\* (null and invalid UTF-8 give ""), the level converted, and the closure
\* behind a non-null data pointer called once; a null data pointer is skipped.
message_handler(level, fmt, data) ==
    LET mess == IF fmt.null THEN <<>>
                ELSE IF Utf8Valid(fmt.bytes) THEN fmt.bytes ELSE <<>>
        log_lev == LogLevel_from(level)
    IN  IF data.fn = "null"
        THEN [outcome |-> "dropped", closure |-> "none", level |-> log_lev, mess |-> mess]
        ELSE [outcome |-> "closure", closure |-> data.closure,
              level |-> log_lev, mess |-> mess]

\* What an invocation can do. Reading the fat pointer through a pointer to a
\* popped stack slot is undefined: the stale bytes may still be there (the
\* closure runs), or they were overwritten (a call through a wild pointer, or
\* a fault).
HandlerOutcomes(level, fmt, data) ==
    IF data.fn # "null" /\ ~data.live
    THEN {message_handler(level, fmt, data),
          [outcome |-> "wild_call", closure |-> "none",
           level |-> LogLevel_from(level), mess |-> <<>>],
          [outcome |-> "fault", closure |-> "none",
           level |-> LogLevel_from(level), mess |-> <<>>]}
    ELSE {message_handler(level, fmt, data)}

\* libass logs a message on a library that has a callback registered: it calls
\* message_handler with the data pointer it was given.
native_log(l) ==
    /\ libs[l].st = "live"
    /\ nativeCb[libs[l].lib].fn = "message_handler"
    /\ \E level \in Levels, fmt \in FmtSamples :
        \E ev \in HandlerOutcomes(level, fmt, nativeCb[libs[l].lib]) :
            cbEvent' = ev
    /\ UNCHANGED <<lifeVars, nativeCb, ffiVars>>

NextCb ==
    \/ Library_new
    \/ \E l \in LibIds, c \in Closures : set_message_cb(l, c)
    \/ \E l \in LibIds : native_log(l)
    \/ \E l \in LibIds : drop_Library(l)

SpecCb == Init /\ [][NextCb]_vars

\* C3: after set_message_cb returns, the storage the registered opaque
\* pointer refers to stays live until the Library is destroyed, and every
\* trampoline invocation in between calls a registered closure.
C3_CallbackStorageLive ==
    /\ \A l \in LibIds :
          libs[l].st = "live" /\ nativeCb[libs[l].lib].fn # "null"
              => nativeCb[libs[l].lib].live
    /\ cbEvent.outcome \in {"none", "closure"}

\* ------------------------------------------------- the trampoline's inputs
\* The opaque pointers message_handler can be entered with: null (the `data`
\* argument is a plain `*mut c_void` that the native caller supplies), or the
\* pointer set_message_cb registered for a closure.
DataSamples ==
    {NoCb} \cup {[fn |-> "message_handler", closure |-> c,
                  region |-> CbDataRegion, live |-> LiveAfterReturn(CbDataRegion)] :
                     c \in Closures}

\* One entry into message_handler, with its arguments kept beside what it did.
log_event(level, fmt, data) ==
    /\ \E ev \in HandlerOutcomes(level, fmt, data) :
        /\ cbEvent' = ev
        /\ ffi' = [op |-> "message_handler", args |-> <<level, fmt, data>>,
                   ret |-> ev.outcome, native |-> <<>>,
                   panic |-> FALSE, prev |-> "none"]
    /\ UNCHANGED <<lifeVars, nativeCb, trackData, handles>>

NextHandler ==
    \E level \in Levels, fmt \in FmtSamples, data \in DataSamples :
        log_event(level, fmt, data)

SpecHandler == Init /\ [][NextHandler]_vars

HandlerEntered == ffi.op = "message_handler"

\* What the message argument says, decoded independently of the handler: the
\* bytes when the pointer is non-null and they are well-formed UTF-8.
DeliveredText(fmt) ==
    IF ~fmt.null /\ Utf8Valid(fmt.bytes) THEN fmt.bytes ELSE <<>>

\* C13: an entry into message_handler with a non-null context pointer calls
\* the registered closure, once, with the empty string for a null or
\* ill-formed message and with the message itself otherwise.
C13_ClosureCalledOnce ==
    HandlerEntered /\ ffi.args[3].fn # "null" =>
        /\ cbEvent.outcome = "closure"
        /\ cbEvent.closure = ffi.args[3].closure
        /\ cbEvent.mess = DeliveredText(ffi.args[2])

\* C16: an entry into message_handler with a null context pointer calls no
\* closure and returns normally, for every level and every message pointer.
C16_NullContextDropped ==
    HandlerEntered /\ ffi.args[3].fn = "null" =>
        /\ cbEvent.outcome = "dropped"
        /\ cbEvent.closure = "none"

\* A null context pointer together with a null message pointer at level 8.
C16_Witness ==
    /\ HandlerEntered
    /\ ffi.args = <<8, NullStr, NoCb>>
    /\ cbEvent.outcome = "dropped"

\* ---------------------------------------------------------- wide integers
\* usize, u32, i64 and i128 values are wider than the model checker's own
\* integers, so a value is a sign and a magnitude, the magnitude a sequence of
\* 16-bit limbs, most significant first, without leading zero limbs.
Num(m) == [neg |-> FALSE, mag |-> m]
Neg(m) == [neg |-> TRUE, mag |-> m]
Zero == Num(<<>>)

MagLess(a, b) ==
    \/ Len(a) < Len(b)
    \/ /\ Len(a) = Len(b)
       /\ \E i \in 1..Len(a) : a[i] < b[i] /\ \A j \in 1..(i - 1) : a[j] = b[j]

MagLeq(a, b) == a = b \/ MagLess(a, b)

\* The ranges of the native parameter types: c_int is i32, long long is i64.
I32 == [maxmag |-> <<32767, 65535>>, minmag |-> <<32768, 0>>]
I64 == [maxmag |-> <<32767, 65535, 65535, 65535>>, minmag |-> <<32768, 0, 0, 0>>]
I32_MAX == Num(I32.maxmag)

try_into_Unsigned32(v, ty) ==
    IF ~v.neg /\ MagLeq(v.mag, <<65535, 65535>>)
    THEN [ok |-> TRUE, val |-> v]
    ELSE [ok |-> FALSE, val |-> Zero]

\* TryFrom between integer types, as `.try_into()` uses it: the value itself
\* when it lies in the target type's range, an error otherwise.
try_into(v, ty) ==
    IF \/ ~v.neg /\ MagLeq(v.mag, ty.maxmag)
       \/ v.neg /\ MagLeq(v.mag, ty.minmag)
    THEN [ok |-> TRUE, val |-> v]
    ELSE [ok |-> FALSE, val |-> Zero]

\* ------------------------------------------------------------------ Track
\* How many chunks a run hands to the native track.
MaxCalls == 2

\* Chunk byte lengths (usize): 0, 5, 2^31 - 1, 2^31, 2^32 and 2^64 - 1.
LenSamples ==
    {Zero, Num(<<5>>), Num(<<32767, 65535>>), Num(<<32768, 0>>),
     Num(<<1, 0, 0>>), Num(<<65535, 65535, 65535, 65535>>)}
\* Matroska timestamps and durations in milliseconds (i64).
TimestampSamples == {Zero, Num(<<1000>>)}
DurationSamples == {Num(<<2000>>)}

\* The process goes on only while no call has panicked.
Running == ~ffi.panic

\* The result of the wrapper call before this one.
PrevRet == ffi.ret

\* Track::process_slice: ass_process_data with the length as c_int, or
\* SliceTooLong without a native call when the length does not convert.
process_slice(t, len) ==
    /\ tracks[t].st = "live"
    /\ Running
    /\ Len(trackData) < MaxCalls
    /\ LET length == try_into(len, I32)
           call == [fn |-> "ass_process_data", size |-> length.val,
                    timestamp |-> Zero, duration |-> Zero]
       IN  IF length.ok
           THEN /\ trackData' = Append(trackData, call)
                /\ ffi' = [op |-> "process_slice", args |-> <<len>>, ret |-> "Ok",
                           native |-> <<call>>, panic |-> FALSE, prev |-> PrevRet]
           ELSE /\ trackData' = trackData
                /\ ffi' = [op |-> "process_slice", args |-> <<len>>,
                           ret |-> "SliceTooLong", native |-> <<>>,
                           panic |-> FALSE, prev |-> PrevRet]
    /\ UNCHANGED <<lifeVars, cbVars, handles>>

\* Track::process_codec_private: as process_slice, with
\* ass_process_codec_private.
process_codec_private(t, len) ==
    /\ tracks[t].st = "live"
    /\ Running
    /\ Len(trackData) < MaxCalls
    /\ LET length == try_into(len, I32)
           call == [fn |-> "ass_process_codec_private", size |-> length.val,
                    timestamp |-> Zero, duration |-> Zero]
       IN  IF length.ok
           THEN /\ trackData' = Append(trackData, call)
                /\ ffi' = [op |-> "process_codec_private", args |-> <<len>>,
                           ret |-> "Ok", native |-> <<call>>, panic |-> FALSE,
                           prev |-> PrevRet]
           ELSE /\ trackData' = trackData
                /\ ffi' = [op |-> "process_codec_private", args |-> <<len>>,
                           ret |-> "SliceTooLong", native |-> <<>>,
                           panic |-> FALSE, prev |-> PrevRet]
    /\ UNCHANGED <<lifeVars, cbVars, handles>>

\* Track::process_chunk: the length is converted with `.try_into().unwrap()`,
\* which panics when it does not fit; the function returns ().
process_chunk(t, len, timestamp, duration) ==
    /\ tracks[t].st = "live"
    /\ Running
    /\ Len(trackData) < MaxCalls
    /\ LET length == try_into(len, I32)
           call == [fn |-> "ass_process_chunk", size |-> length.val,
                    timestamp |-> timestamp, duration |-> duration]
       IN  IF length.ok
           THEN /\ trackData' = Append(trackData, call)
                /\ ffi' = [op |-> "process_chunk", args |-> <<len, timestamp, duration>>,
                           ret |-> "unit", native |-> <<call>>, panic |-> FALSE,
                           prev |-> PrevRet]
           ELSE /\ trackData' = trackData
                /\ ffi' = [op |-> "process_chunk", args |-> <<len, timestamp, duration>>,
                           ret |-> "panic", native |-> <<>>, panic |-> TRUE,
                           prev |-> PrevRet]
    /\ UNCHANGED <<lifeVars, cbVars, handles>>

\* A Library with one Track and one Renderer made from it.
InitHandles ==
    /\ libs = [l \in LibIds |-> IF l = 1 THEN [st |-> "live", lib |-> 1] ELSE NoLib]
    /\ tracks = [t \in TrackIds |->
                    IF t = 1 THEN [st |-> "live", track |-> 1, lib |-> 1] ELSE NoTrack]
    /\ renderers = [r \in RendIds |->
                    IF r = 1 THEN [st |-> "live", renderer |-> 1, parent |-> 1]
                    ELSE NoRenderer]
    /\ libDone = [l \in LibIds |-> 0]
    /\ trackFree = [t \in TrackIds |-> 0]
    /\ rendDone = [r \in RendIds |-> 0]

InitTrack == InitHandles /\ InitCb /\ InitFfi

NextTrack ==
    \/ \E t \in TrackIds, len \in LenSamples : process_slice(t, len)
    \/ \E t \in TrackIds, len \in LenSamples : process_codec_private(t, len)
    \/ \E t \in TrackIds, len \in LenSamples, ts \in TimestampSamples,
          d \in DurationSamples : process_chunk(t, len, ts, d)

SpecTrack == InitTrack /\ [][NextTrack]_vars

\* A chunk length of at most 2^31 - 1, the largest value of a native c_int.
LenFitsNative(len) == ~len.neg /\ MagLeq(len.mag, <<32767, 65535>>)

\* C7: a process_slice call on a chunk of at most 2^31 - 1 bytes returns Ok and
\* hands the native track exactly that length; on a longer chunk it returns
\* SliceTooLong, makes no native call and leaves the track's data as it was,
\* and this holds whatever the call before returned.
C7_ProcessSliceLengthLimit ==
    [][ffi'.op = "process_slice" =>
         LET len == ffi'.args[1] IN
         IF LenFitsNative(len)
         THEN /\ ffi'.ret = "Ok"
              /\ trackData' = Append(trackData,
                     [fn |-> "ass_process_data", size |-> len,
                      timestamp |-> Zero, duration |-> Zero])
         ELSE /\ ffi'.ret = "SliceTooLong"
              /\ ffi'.native = <<>>
              /\ trackData' = trackData]_vars

\* C7 witness: a valid chunk was accepted right after a chunk was refused.
C7_Witness ==
    /\ ffi.op = "process_slice"
    /\ ffi.prev = "SliceTooLong"
    /\ ffi.ret = "Ok"
    /\ ffi.args[1] = I32_MAX
    /\ trackData = <<[fn |-> "ass_process_data", size |-> I32_MAX,
                      timestamp |-> Zero, duration |-> Zero]>>

\* C8: process_codec_private and process_chunk, given a chunk longer than
\* 2^31 - 1 bytes, return SliceTooLong to the caller without a native call and
\* without a panic.
C8_SameLengthLimit ==
    ffi.op \in {"process_codec_private", "process_chunk"}
        /\ ~LenFitsNative(ffi.args[1])
        => ffi.ret = "SliceTooLong" /\ ffi.native = <<>> /\ ~ffi.panic

\* ----------------------------------------------- features, styles, events
\* enum Feature, #[repr(i32)], and `feat as _`.
Feature == {"IncompatibleExtensions", "BidirectionalBrackets",
            "WholeTextLayout", "WrapUnicode"}
Feature_as_i32(feat) ==
    CASE feat = "IncompatibleExtensions" -> 0
      [] feat = "BidirectionalBrackets" -> 1
      [] feat = "WholeTextLayout" -> 2
      [] feat = "WrapUnicode" -> 3

\* What ass_track_set_feature, ass_alloc_style and ass_alloc_event return.
FeatureCodes == {-1, 0, 1}
AllocCodes == -2..2

\* How many Style and Event values a run keeps alive at once.
MaxHandles == 2

set_feature_NonNegative(t, feat, enable, code) ==
    /\ tracks[t].st = "live"
    /\ ffi' = [op |-> "set_feature", args |-> <<t, feat, enable>>,
               ret |-> IF code >= 0 THEN "Some" ELSE "None",
               native |-> <<[fn |-> "ass_track_set_feature",
                             track |-> tracks[t].track,
                             feature |-> Feature_as_i32(feat),
                             enable |-> IF enable THEN 1 ELSE 0,
                             reply |-> code]>>,
               panic |-> FALSE, prev |-> "none"]
    /\ UNCHANGED <<lifeVars, cbVars, trackData, handles>>

\* Track::set_feature: Some(()) when ass_track_set_feature returns 0, None
\* for any other code.
set_feature(t, feat, enable, code) ==
    /\ tracks[t].st = "live"
    /\ ffi' = [op |-> "set_feature", args |-> <<t, feat, enable>>,
               ret |-> IF code = 0 THEN "Some" ELSE "None",
               native |-> <<[fn |-> "ass_track_set_feature",
                             track |-> tracks[t].track,
                             feature |-> Feature_as_i32(feat),
                             enable |-> IF enable THEN 1 ELSE 0,
                             reply |-> code]>>,
               panic |-> FALSE, prev |-> "none"]
    /\ UNCHANGED <<lifeVars, cbVars, trackData, handles>>

alloc_Positive(t, kind, code) ==
    IF code > 0
    THEN [ok |-> TRUE, val |-> [kind |-> kind, index |-> code, track |-> t]]
    ELSE [ok |-> FALSE, val |-> "AllocError"]

\* The body alloc_style and alloc_event share: a handle made of the code and
\* `self` when the code is not negative, AllocError otherwise.
alloc(t, kind, code) ==
    IF code >= 0
    THEN [ok |-> TRUE, val |-> [kind |-> kind, index |-> code, track |-> t]]
    ELSE [ok |-> FALSE, val |-> "AllocError"]

\* Track::alloc_style: ass_alloc_style(self.track).
alloc_style(t, code) ==
    /\ tracks[t].st = "live"
    /\ Cardinality(handles) < MaxHandles
    /\ LET res == alloc(t, "Style", code) IN
        /\ handles' = IF res.ok THEN handles \cup {res.val} ELSE handles
        /\ ffi' = [op |-> "alloc_style", args |-> <<t>>, ret |-> res,
                   native |-> <<[fn |-> "ass_alloc_style",
                                 track |-> tracks[t].track, reply |-> code]>>,
                   panic |-> FALSE, prev |-> "none"]
    /\ UNCHANGED <<lifeVars, cbVars, trackData>>

\* Track::alloc_event: ass_alloc_event(self.track).
alloc_event(t, code) ==
    /\ tracks[t].st = "live"
    /\ Cardinality(handles) < MaxHandles
    /\ LET res == alloc(t, "Event", code) IN
        /\ handles' = IF res.ok THEN handles \cup {res.val} ELSE handles
        /\ ffi' = [op |-> "alloc_event", args |-> <<t>>, ret |-> res,
                   native |-> <<[fn |-> "ass_alloc_event",
                                 track |-> tracks[t].track, reply |-> code]>>,
                   panic |-> FALSE, prev |-> "none"]
    /\ UNCHANGED <<lifeVars, cbVars, trackData>>

\* A Style or Event going out of scope: neither type has a Drop impl and both
\* fields are plain (an i32 and a reference), so nothing runs.
drop_handle(h) ==
    /\ h \in handles
    /\ handles' = handles \ {h}
    /\ ffi' = [op |-> "drop_handle", args |-> <<h>>, ret |-> "unit",
               native |-> <<>>, panic |-> FALSE, prev |-> "none"]
    /\ UNCHANGED <<lifeVars, cbVars, trackData>>

NextTrackOps ==
    \/ \E t \in TrackIds, feat \in Feature, enable \in BOOLEAN,
          code \in FeatureCodes : set_feature(t, feat, enable, code)
    \/ \E t \in TrackIds, code \in AllocCodes : alloc_style(t, code)
    \/ \E t \in TrackIds, code \in AllocCodes : alloc_event(t, code)
    \/ \E h \in handles : drop_handle(h)
    \/ \E t \in TrackIds : drop_Track(t)

SpecTrackOps == InitTrack /\ [][NextTrackOps]_vars

\* C14: a set_feature call returns Some exactly when ass_track_set_feature
\* returned 0 and None for every other code; it has no third result.
C14_SomeExactlyOnZero ==
    ffi.op = "set_feature" =>
        LET code == ffi.native[1].reply IN
        /\ ffi.ret \in {"Some", "None"}
        /\ ffi.ret = "Some" <=> code = 0
        /\ code # 0 => ffi.ret = "None"

\* The native engine answered 1 to enabling WrapUnicode and the caller got
\* None.
C14_Witness ==
    /\ ffi.op = "set_feature"
    /\ ffi.args[2] = "WrapUnicode" /\ ffi.args[3]
    /\ ffi.native[1].feature = 3
    /\ ffi.native[1].reply = 1
    /\ ffi.ret = "None"

AllocCalled == ffi' # ffi /\ ffi'.op \in {"alloc_style", "alloc_event"}

\* C20: an alloc_style or alloc_event call whose native code is negative
\* returns AllocError and makes no handle; for a code of 0 or more it returns
\* a Style (an Event) whose index is that code and which refers to the track
\* the call was made on. A track is alive as long as a handle refers to it,
\* and a step in which a handle goes away makes no native call and frees
\* nothing.
C20_AllocHandles ==
    [][/\ AllocCalled =>
            LET code == ffi'.native[1].reply
                t == ffi'.args[1]
                kind == IF ffi'.op = "alloc_style" THEN "Style" ELSE "Event"
            IN  IF code < 0
                THEN /\ ffi'.ret = [ok |-> FALSE, val |-> "AllocError"]
                     /\ handles' = handles
                ELSE /\ ffi'.ret = [ok |-> TRUE,
                                    val |-> [kind |-> kind, index |-> code,
                                             track |-> t]]
                     /\ handles' = handles \cup {ffi'.ret.val}
       /\ \A h \in handles' : tracks'[h.track].st = "live"
       /\ handles' # handles /\ handles' \subseteq handles =>
            /\ ffi'.native = <<>>
            /\ trackFree' = trackFree]_vars

\* An Event with index 0 has just been made while a Style with index 2 of the
\* same track is alive.
C20_Witness ==
    /\ ffi.op = "alloc_event"
    /\ ffi.native[1].reply = 0
    /\ handles = {[kind |-> "Event", index |-> 0, track |-> 1],
                  [kind |-> "Style", index |-> 2, track |-> 1]}
    /\ tracks[1].st = "live"

\* ---------------------------------------------------------- font providers
\* enum FontProvider, #[repr(i32)], with the codes of ASS_DefaultFontProvider.
ASS_FONTPROVIDER_NONE == 0
ASS_FONTPROVIDER_AUTODETECT == 1
ASS_FONTPROVIDER_CORETEXT == 2
ASS_FONTPROVIDER_FONTCONFIG == 3
ASS_FONTPROVIDER_DIRECTWRITE == 4

FontProvider ==
    {ASS_FONTPROVIDER_NONE, ASS_FONTPROVIDER_AUTODETECT, ASS_FONTPROVIDER_CORETEXT,
     ASS_FONTPROVIDER_FONTCONFIG, ASS_FONTPROVIDER_DIRECTWRITE}

\* How long an array ass_get_available_font_providers may hand back.
MaxProviders == 3

\* The 32-bit integers libass may write into the array.
ProviderInts == {-1, 0, 1, 3, 5}

RECURSIVE SeqsUpTo(_, _)
SeqsUpTo(S, n) ==
    IF n = 0 THEN {<<>>}
    ELSE LET shorter == SeqsUpTo(S, n - 1)
         IN  shorter \cup {Append(q, x) : q \in {p \in shorter : Len(p) = n - 1}, x \in S}

\* What the native call leaves in the out-parameters: a null pointer, or a
\* malloc'ed array and its element count.
ProviderOutputs ==
    {[null |-> TRUE, arr |-> <<>>, count |-> 0]}
        \cup {[null |-> FALSE, arr |-> a, count |-> Len(a)] :
                  a \in SeqsUpTo(ProviderInts, MaxProviders)}

\* slice::from_raw_parts(out_buf.as_ptr().cast(), count): the i32 array is
\* read as a [FontProvider] of count elements, each element the bits libass
\* wrote; no conversion is applied.
from_raw_parts_cast(arr, count) == [i \in 1..count |-> arr[i]]

get_avaliable_font_providers_FreeFirst(l, out) ==
    /\ libs[l].st = "live"
    /\ Running
    /\ LET query == [fn |-> "ass_get_available_font_providers", lib |-> libs[l].lib]
           buf == <<>>
       IN  IF out.null
           THEN ffi' = [op |-> "get_avaliable_font_providers", args |-> <<out>>,
                        ret |-> buf, native |-> <<query>>, panic |-> FALSE,
                        prev |-> "none"]
           ELSE LET release == [fn |-> "free", ptr |-> "out_buf", buf |-> buf]
                    slice == from_raw_parts_cast(out.arr, out.count)
                IN  ffi' = [op |-> "get_avaliable_font_providers", args |-> <<out>>,
                            ret |-> buf \o slice,
                            native |-> <<query, release>>,
                            panic |-> FALSE, prev |-> "none"]
    /\ UNCHANGED <<lifeVars, cbVars, trackData, handles>>

\* Library::get_avaliable_font_providers: `buf` starts empty; on a non-null
\* out-pointer the slice is appended to it and then the array is released
\* with libc::free (the record of that call keeps what `buf` held by then);
\* `buf` is returned, so a null out-pointer gives the empty Vec.
get_avaliable_font_providers(l, out) ==
    /\ libs[l].st = "live"
    /\ Running
    /\ LET query == [fn |-> "ass_get_available_font_providers", lib |-> libs[l].lib]
           buf == <<>>
       IN  IF out.null
           THEN ffi' = [op |-> "get_avaliable_font_providers", args |-> <<out>>,
                        ret |-> buf, native |-> <<query>>, panic |-> FALSE,
                        prev |-> "none"]
           ELSE LET slice == from_raw_parts_cast(out.arr, out.count)
                    extended == buf \o slice
                    release == [fn |-> "free", ptr |-> "out_buf", buf |-> extended]
                IN  ffi' = [op |-> "get_avaliable_font_providers", args |-> <<out>>,
                            ret |-> extended,
                            native |-> <<query, release>>,
                            panic |-> FALSE, prev |-> "none"]
    /\ UNCHANGED <<lifeVars, cbVars, trackData, handles>>

NextFonts ==
    \E l \in LibIds, out \in ProviderOutputs : get_avaliable_font_providers(l, out)

SpecFonts == InitTrack /\ [][NextFonts]_vars

\* C5: every element of the sequence get_avaliable_font_providers returns is a
\* value of the FontProvider enumeration, whatever integers libass wrote.
C5_OnlyDefinedProviders ==
    ffi.op = "get_avaliable_font_providers"
        => \A i \in 1..Len(ffi.ret) : ffi.ret[i] \in FontProvider

\* The positions of the libc::free calls among a call's native calls.
FreeCalls == {i \in 1..Len(ffi.native) : ffi.native[i].fn = "free"}

\* C18: when ass_get_available_font_providers leaves the out-pointer null
\* the result is empty and free is not called; when it hands back an array
\* of count elements the result is those count elements in the array's
\* order, and free is called once, as the last native call, on that array,
\* with all the elements already in the result.
C18_CopyThenFreeOnce ==
    ffi.op = "get_avaliable_font_providers" =>
        LET out == ffi.args[1] IN
        IF out.null
        THEN /\ ffi.ret = <<>>
             /\ FreeCalls = {}
        ELSE /\ Len(ffi.ret) = out.count
             /\ \A i \in 1..out.count : ffi.ret[i] = out.arr[i]
             /\ FreeCalls = {Len(ffi.native)}
             /\ ffi.native[1].fn = "ass_get_available_font_providers"
             /\ ffi.native[Len(ffi.native)].ptr = "out_buf"
             /\ ffi.native[Len(ffi.native)].buf = out.arr

\* An array of three providers came back as the same three, and was freed.
C18_Witness ==
    /\ ffi.op = "get_avaliable_font_providers"
    /\ ffi.args[1] = [null |-> FALSE, arr |-> <<3, 1, 0>>, count |-> 3]
    /\ ffi.ret = <<3, 1, 0>>
    /\ Len(ffi.native) = 2
    /\ ffi.native[2].fn = "free"

\* ------------------------------------------------------------- set_fonts
\* How many bytes a path may have, and the bytes it is made of: NUL and the
\* two bytes of U+00E9, which are UTF-8 only as the pair 195, 169.
MaxPathLen == 2
PathBytes == {0, 195, 169}

\* Option<PathBuf>: None, or the bytes of the path.
NoPath == [some |-> FALSE, bytes |-> <<>>]
PathSamples ==
    {NoPath} \cup {[some |-> TRUE, bytes |-> b] : b \in SeqsUpTo(PathBytes, MaxPathLen)}

NullPtr == [null |-> TRUE, bytes |-> <<>>, live |-> FALSE]
NoErr == [kind |-> "none", path |-> <<>>]
\* The result slot of a call that has not returned yet.
Pending == [ok |-> FALSE, err |-> [kind |-> "pending", path |-> <<>>]]

path_to_ptr_Unchecked(path) ==
    IF Utf8Valid(path)
    THEN [ok |-> TRUE, err |-> NoErr,
          ptr |-> [null |-> FALSE, bytes |-> Append(path, 0),
                   live |-> LiveAfterReturn("heap")]]
    ELSE [ok |-> FALSE, err |-> [kind |-> "NotUtf8", path |-> path], ptr |-> NullPtr]

\* path_to_ptr: the path as a String (NotUtf8 when it is not UTF-8), then as a
\* CString (NullInPath when it holds a NUL); the CString's buffer is leaked
\* and the pointer to it returned.
path_to_ptr(path) ==
    IF Utf8Valid(path)
    THEN IF \E i \in 1..Len(path) : path[i] = 0
         THEN [ok |-> FALSE, err |-> [kind |-> "NullInPath", path |-> path],
               ptr |-> NullPtr]
         ELSE [ok |-> TRUE, err |-> NoErr,
               ptr |-> [null |-> FALSE, bytes |-> Append(path, 0),
                        live |-> LiveAfterReturn("heap")]]
    ELSE [ok |-> FALSE, err |-> [kind |-> "NotUtf8", path |-> path], ptr |-> NullPtr]

opt_path_to_ptr_Temporary(p) ==
    IF p.some
    THEN LET res == path_to_ptr(p.bytes)
         IN  IF res.ok THEN [res EXCEPT !.ptr.live = FALSE] ELSE res
    ELSE [ok |-> TRUE, err |-> NoErr, ptr |-> NullPtr]

\* `match p { Some(path) => path_to_ptr(path)?, None => core::ptr::null() }`
opt_path_to_ptr(p) ==
    IF p.some THEN path_to_ptr(p.bytes)
    ELSE [ok |-> TRUE, err |-> NoErr, ptr |-> NullPtr]

set_fonts_KeepConfig(r) ==
    /\ renderers[r].st = "live"
    /\ ffi.op = "set_fonts" /\ ffi.ret = Pending
    /\ LET default_font == ffi.args[1]
           default_family == ffi.args[2]
           font_provider == ffi.args[3]
           update == ffi.args[5]
           font_out == opt_path_to_ptr(default_font)
           family_out == opt_path_to_ptr(default_family)
           fontconfig_config == ffi.args[4]
           config_out == opt_path_to_ptr(fontconfig_config)
           Fail(e) == [ffi EXCEPT !.ret = [ok |-> FALSE, err |-> e]]
       IN  ffi' = IF ~font_out.ok THEN Fail(font_out.err)
                  ELSE IF ~family_out.ok THEN Fail(family_out.err)
                  ELSE IF ~config_out.ok THEN Fail(config_out.err)
                  ELSE [ffi EXCEPT
                          !.ret = [ok |-> TRUE, err |-> NoErr],
                          !.native = <<[fn |-> "ass_set_fonts",
                                        renderer |-> renderers[r].renderer,
                                        default_font |-> font_out.ptr,
                                        default_family |-> family_out.ptr,
                                        dfp |-> font_provider,
                                        config |-> config_out.ptr,
                                        update |-> update]>>]
    /\ UNCHANGED <<lifeVars, cbVars, trackData, handles>>

\* Renderer::set_fonts, on the call whose arguments are waiting in ffi.
set_fonts(r) ==
    /\ renderers[r].st = "live"
    /\ ffi.op = "set_fonts" /\ ffi.ret = Pending
    /\ LET default_font == ffi.args[1]
           default_family == ffi.args[2]
           font_provider == ffi.args[3]
           update == ffi.args[5]
           font_out == opt_path_to_ptr(default_font)
           family_out == opt_path_to_ptr(default_family)
           fontconfig_config ==
               IF font_provider = ASS_FONTPROVIDER_FONTCONFIG THEN NoPath
               ELSE ffi.args[4]
           config_out == opt_path_to_ptr(fontconfig_config)
           Fail(e) == [ffi EXCEPT !.ret = [ok |-> FALSE, err |-> e]]
       IN  ffi' = IF ~font_out.ok THEN Fail(font_out.err)
                  ELSE IF ~family_out.ok THEN Fail(family_out.err)
                  ELSE IF ~config_out.ok THEN Fail(config_out.err)
                  ELSE [ffi EXCEPT
                          !.ret = [ok |-> TRUE, err |-> NoErr],
                          !.native = <<[fn |-> "ass_set_fonts",
                                        renderer |-> renderers[r].renderer,
                                        default_font |-> font_out.ptr,
                                        default_family |-> family_out.ptr,
                                        dfp |-> font_provider,
                                        config |-> config_out.ptr,
                                        update |-> update]>>]
    /\ UNCHANGED <<lifeVars, cbVars, trackData, handles>>

\* A set_fonts call about to be made, with any arguments.
InitSetFonts ==
    /\ InitHandles /\ InitCb
    /\ trackData = <<>>
    /\ handles = {}
    /\ \E font \in PathSamples, family \in PathSamples, provider \in FontProvider,
          config \in PathSamples, update \in BOOLEAN :
        ffi = [op |-> "set_fonts", args |-> <<font, family, provider, config, update>>,
               ret |-> Pending, native |-> <<>>, panic |-> FALSE, prev |-> "none"]

NextSetFonts == \E r \in RendIds : set_fonts(r)

SpecSetFonts == InitSetFonts /\ [][NextSetFonts]_vars

\* A supplied path that holds a NUL byte or is not UTF-8.
BadPath(p) ==
    p.some /\ ((\E i \in 1..Len(p.bytes) : p.bytes[i] = 0) \/ ~Utf8Valid(p.bytes))

\* The typed error for a bad path: NotUtf8 for invalid UTF-8, else NullInPath.
PathErrOf(p) ==
    [kind |-> IF Utf8Valid(p.bytes) THEN "NullInPath" ELSE "NotUtf8", path |-> p.bytes]

SetFontsDone == ffi.op = "set_fonts" /\ ffi.ret # Pending

\* C6 as stated: whenever any of the three supplied paths is bad, set_fonts
\* returns a PathErr and ass_set_fonts is not called.
C6_AnyBadPathRejected ==
    SetFontsDone /\ (BadPath(ffi.args[1]) \/ BadPath(ffi.args[2]) \/ BadPath(ffi.args[4]))
        => ~ffi.ret.ok /\ ffi.native = <<>>

\* C6 amended: when the default font, the default family, or (with a provider
\* other than Fontconfig) the fontconfig path is bad, set_fonts returns the
\* PathErr of the first bad one of these and ass_set_fonts is not called.
C6_UsedBadPathRejected ==
    SetFontsDone =>
        LET used == <<ffi.args[1], ffi.args[2],
                      IF ffi.args[3] = ASS_FONTPROVIDER_FONTCONFIG THEN NoPath
                      ELSE ffi.args[4]>>
            bad == {i \in 1..3 : BadPath(used[i])}
        IN  bad # {} =>
                /\ ~ffi.ret.ok
                /\ ffi.native = <<>>
                /\ \E i \in bad : (\A j \in bad : i <= j) /\ ffi.ret.err = PathErrOf(used[i])

\* C6 witness: a call was refused for the NUL in its fontconfig path, the
\* default font being a good path and the family path absent.
C6_Witness ==
    /\ SetFontsDone
    /\ ffi.args[1] = [some |-> TRUE, bytes |-> <<195, 169>>]
    /\ ffi.args[2] = NoPath
    /\ ffi.args[3] = ASS_FONTPROVIDER_AUTODETECT
    /\ ffi.args[4] = [some |-> TRUE, bytes |-> <<0>>]
    /\ ffi.ret = [ok |-> FALSE, err |-> [kind |-> "NullInPath", path |-> <<0>>]]
    /\ ffi.native = <<>>

\* What the native side reads at a char pointer: the bytes before the first
\* NUL.
RECURSIVE CStrFrom(_, _)
CStrFrom(b, i) ==
    IF i > Len(b) \/ b[i] = 0 THEN <<>> ELSE <<b[i]>> \o CStrFrom(b, i + 1)

\* The pointer is to storage still allocated whose C string is the path p.
PointsToPath(ptr, p) ==
    /\ ~ptr.null
    /\ ptr.live
    /\ Len(ptr.bytes) = Len(p.bytes) + 1
    /\ CStrFrom(ptr.bytes, 1) = p.bytes

SetFontsCalled == SetFontsDone /\ Len(ffi.native) = 1

\* C15: a set_fonts call whose default font and default family are each
\* absent or a UTF-8 path without NUL, and whose fontconfig path is so too
\* unless the provider is Fontconfig, reaches ass_set_fonts, and there every
\* path that was supplied is a pointer to storage still allocated whose
\* NUL-terminated bytes are exactly the path.
C15_PathRoundTrip ==
    SetFontsDone =>
        LET cleared == ffi.args[3] = ASS_FONTPROVIDER_FONTCONFIG
            good == /\ ~BadPath(ffi.args[1])
                    /\ ~BadPath(ffi.args[2])
                    /\ cleared \/ ~BadPath(ffi.args[4])
        IN  good =>
              /\ Len(ffi.native) = 1
              /\ ffi.args[1].some =>
                    PointsToPath(ffi.native[1].default_font, ffi.args[1])
              /\ ffi.args[2].some =>
                    PointsToPath(ffi.native[1].default_family, ffi.args[2])
              /\ ffi.args[4].some /\ ~cleared =>
                    PointsToPath(ffi.native[1].config, ffi.args[4])

\* The two-byte path of U+00E9 reached ass_set_fonts as three bytes, the
\* last a NUL, in live storage, beside an empty family path.
C15_Witness ==
    /\ SetFontsCalled
    /\ ffi.args[1] = [some |-> TRUE, bytes |-> <<195, 169>>]
    /\ ffi.args[2] = [some |-> TRUE, bytes |-> <<>>]
    /\ ffi.native[1].default_font =
           [null |-> FALSE, bytes |-> <<195, 169, 0>>, live |-> TRUE]
    /\ ffi.native[1].default_family = [null |-> FALSE, bytes |-> <<0>>, live |-> TRUE]

\* C17: when set_fonts reaches ass_set_fonts with the Fontconfig provider the
\* configuration pointer is null whatever path was supplied, and a bad path
\* there does not stop the call; with any other provider the pointer is to
\* the supplied path, null when none was supplied, and a bad path there
\* stops the call.
C17_FontconfigClearsConfig ==
    SetFontsDone =>
        IF ffi.args[3] = ASS_FONTPROVIDER_FONTCONFIG
        THEN /\ Len(ffi.native) = 1 => ffi.native[1].config.null
             /\ ~BadPath(ffi.args[1]) /\ ~BadPath(ffi.args[2]) => Len(ffi.native) = 1
        ELSE /\ Len(ffi.native) = 1 =>
                  IF ffi.args[4].some
                  THEN /\ ~ffi.native[1].config.null
                       /\ CStrFrom(ffi.native[1].config.bytes, 1) = ffi.args[4].bytes
                  ELSE ffi.native[1].config.null
             /\ BadPath(ffi.args[4]) => ffi.native = <<>>

\* With the Fontconfig provider a fontconfig path holding a NUL was supplied
\* and ass_set_fonts got a null configuration pointer.
C17_Witness ==
    /\ SetFontsCalled
    /\ ffi.args[3] = ASS_FONTPROVIDER_FONTCONFIG
    /\ ffi.args[4] = [some |-> TRUE, bytes |-> <<0>>]
    /\ ffi.native[1].config = NullPtr
    /\ ffi.native[1].dfp = ASS_FONTPROVIDER_FONTCONFIG

\* ---------------------------------------------------------------- Renderer
\* Sizes and limits (u32): 0, 1920, 2^31 - 1, 2^31 and 2^32 - 1.
U32Samples ==
    {Zero, Num(<<1920>>), Num(<<32767, 65535>>), Num(<<32768, 0>>),
     Num(<<65535, 65535>>)}

\* Result::unwrap_or.
unwrap_or(res, default) == IF res.ok THEN res.val ELSE default

\* A setter that returns () after one native call.
Setter(op, args, fn, forwarded) ==
    [op |-> op, args |-> args, ret |-> "unit",
     native |-> <<[fn |-> fn, args |-> forwarded]>>, panic |-> FALSE, prev |-> "none"]

\* Renderer::set_frame_size: each of width and height as c_int, or 0.
set_frame_size(r, width, height) ==
    /\ renderers[r].st = "live"
    /\ Running
    /\ ffi' = Setter("set_frame_size", <<width, height>>, "ass_set_frame_size",
                     <<unwrap_or(try_into(width, I32), Zero),
                       unwrap_or(try_into(height, I32), Zero)>>)
    /\ UNCHANGED <<lifeVars, cbVars, trackData, handles>>

\* Renderer::set_storage_size: each of width and height as c_int, or 0.
set_storage_size(r, width, height) ==
    /\ renderers[r].st = "live"
    /\ Running
    /\ ffi' = Setter("set_storage_size", <<width, height>>, "ass_set_storage_size",
                     <<unwrap_or(try_into(width, I32), Zero),
                       unwrap_or(try_into(height, I32), Zero)>>)
    /\ UNCHANGED <<lifeVars, cbVars, trackData, handles>>

\* Renderer::set_cache_limits: each limit as c_int, or i32::MAX.
set_cache_limits(r, glyph_max, bitmap_cache) ==
    /\ renderers[r].st = "live"
    /\ Running
    /\ ffi' = Setter("set_cache_limits", <<glyph_max, bitmap_cache>>,
                     "ass_set_cache_limits",
                     <<unwrap_or(try_into(glyph_max, I32), I32_MAX),
                       unwrap_or(try_into(bitmap_cache, I32), I32_MAX)>>)
    /\ UNCHANGED <<lifeVars, cbVars, trackData, handles>>

\* enum ChangeDetection, #[repr(i32)]: `*val as i32`.
ChangeDetection == {"Identical", "DifferentPositions", "DifferentContent"}
ChangeDetection_as_i32(val) ==
    CASE val = "Identical" -> 0
      [] val = "DifferentPositions" -> 1
      [] val = "DifferentContent" -> 2

ChangeDetection_try_from_Lenient(value) ==
    CASE value = 1 -> [ok |-> TRUE, val |-> "DifferentPositions"]
      [] value = 2 -> [ok |-> TRUE, val |-> "DifferentContent"]
      [] OTHER -> [ok |-> TRUE, val |-> "Identical"]

\* impl TryFrom<i32> for ChangeDetection.
ChangeDetection_try_from(value) ==
    CASE value = 0 -> [ok |-> TRUE, val |-> "Identical"]
      [] value = 1 -> [ok |-> TRUE, val |-> "DifferentPositions"]
      [] value = 2 -> [ok |-> TRUE, val |-> "DifferentContent"]
      [] OTHER -> [ok |-> FALSE, val |-> "FromIntError"]

\* The caller's Option<ChangeDetection> slot.
NoSlot == [some |-> FALSE, val |-> "none"]
SlotSamples == {NoSlot} \cup {[some |-> TRUE, val |-> v] : v \in ChangeDetection}

\* Duration::whole_milliseconds (i128): 0, 1000, -1, the ends of i64, the
\* values next to them outside i64, and 2^64.
MillisSamples ==
    {Zero, Num(<<1000>>), Neg(<<1>>),
     Num(<<32767, 65535, 65535, 65535>>), Neg(<<32768, 0, 0, 0>>),
     Num(<<32768, 0, 0, 0>>), Neg(<<32768, 0, 0, 1>>), Num(<<1, 0, 0, 0, 0>>)}

\* What ass_render_frame does: the image list it returns (null for none) and
\* the integer it leaves behind a non-null detect_change pointer.
RenderReplies == [image : {"null", "images"}, out : -1..3]

now_arg_Cast(timestamp) == [ok |-> TRUE, val |-> timestamp]

\* `timestamp.whole_milliseconds().try_into().ok()?`: the `now` argument as a
\* long long, or an early return of None.
now_arg(timestamp) == try_into(timestamp, I64)

render_frame_TakesSlot(r, t, timestamp, detect_change, reply) ==
    /\ renderers[r].st = "live"
    /\ tracks[t].st = "live"
    /\ Running
    /\ LET out_value == IF detect_change.some
                        THEN ChangeDetection_as_i32(detect_change.val) ELSE 0
           out_ptr == IF detect_change.some
                      THEN [null |-> FALSE, val |-> out_value]
                      ELSE [null |-> TRUE, val |-> 0]
           now == now_arg(timestamp)
           written == IF out_ptr.null THEN out_value ELSE reply.out
           call == [fn |-> "ass_render_frame",
                    args |-> <<renderers[r].renderer, tracks[t].track, now.val, out_ptr>>,
                    reply |-> [image |-> reply.image, out_value |-> written]]
           change == ChangeDetection_try_from(written)
           args == <<timestamp, detect_change>>
       IN  ffi' =
             IF ~now.ok
             THEN [op |-> "render_frame", args |-> args,
                   ret |-> [value |-> "None", detect_change |-> NoSlot],
                   native |-> <<>>, panic |-> FALSE, prev |-> "none"]
             ELSE IF detect_change.some /\ ~change.ok
             THEN [op |-> "render_frame", args |-> args,
                   ret |-> [value |-> "panic", detect_change |-> detect_change],
                   native |-> <<call>>, panic |-> TRUE, prev |-> "none"]
             ELSE [op |-> "render_frame", args |-> args,
                   ret |-> [value |-> IF reply.image = "null" THEN "None" ELSE "Some",
                            detect_change |->
                                IF detect_change.some
                                THEN [some |-> TRUE, val |-> change.val]
                                ELSE NoSlot],
                   native |-> <<call>>, panic |-> FALSE, prev |-> "none"]
    /\ UNCHANGED <<lifeVars, cbVars, trackData, handles>>

\* Renderer::render_frame. The arguments of ass_render_frame are evaluated in
\* order, so a timestamp that does not convert returns None before the call.
render_frame(r, t, timestamp, detect_change, reply) ==
    /\ renderers[r].st = "live"
    /\ tracks[t].st = "live"
    /\ Running
    /\ LET out_value == IF detect_change.some
                        THEN ChangeDetection_as_i32(detect_change.val) ELSE 0
           out_ptr == IF detect_change.some
                      THEN [null |-> FALSE, val |-> out_value]
                      ELSE [null |-> TRUE, val |-> 0]
           now == now_arg(timestamp)
           written == IF out_ptr.null THEN out_value ELSE reply.out
           call == [fn |-> "ass_render_frame",
                    args |-> <<renderers[r].renderer, tracks[t].track, now.val, out_ptr>>,
                    reply |-> [image |-> reply.image, out_value |-> written]]
           change == ChangeDetection_try_from(written)
           args == <<timestamp, detect_change>>
       IN  ffi' =
             IF ~now.ok
             THEN [op |-> "render_frame", args |-> args,
                   ret |-> [value |-> "None", detect_change |-> detect_change],
                   native |-> <<>>, panic |-> FALSE, prev |-> "none"]
             ELSE IF detect_change.some /\ ~change.ok
             THEN [op |-> "render_frame", args |-> args,
                   ret |-> [value |-> "panic", detect_change |-> detect_change],
                   native |-> <<call>>, panic |-> TRUE, prev |-> "none"]
             ELSE [op |-> "render_frame", args |-> args,
                   ret |-> [value |-> IF reply.image = "null" THEN "None" ELSE "Some",
                            detect_change |->
                                IF detect_change.some
                                THEN [some |-> TRUE, val |-> change.val]
                                ELSE NoSlot],
                   native |-> <<call>>, panic |-> FALSE, prev |-> "none"]
    /\ UNCHANGED <<lifeVars, cbVars, trackData, handles>>

NextRender ==
    \/ \E r \in RendIds, w \in U32Samples, h \in U32Samples : set_frame_size(r, w, h)
    \/ \E r \in RendIds, w \in U32Samples, h \in U32Samples : set_storage_size(r, w, h)
    \/ \E r \in RendIds, g \in U32Samples, b \in U32Samples : set_cache_limits(r, g, b)
    \/ \E r \in RendIds, t \in TrackIds, ts \in MillisSamples, dc \in SlotSamples,
          reply \in RenderReplies : render_frame(r, t, ts, dc, reply)

SpecRender == InitTrack /\ [][NextRender]_vars

\* C9: a frame size, storage size or cache limit that does not fit the native
\* signed 32-bit parameter makes the call fail with a typed error, and no
\* value is forwarded in its place.
C9_OutOfRangeIsTypedError ==
    ffi.op \in {"set_frame_size", "set_storage_size", "set_cache_limits"}
        /\ (\E i \in 1..2 : ~LenFitsNative(ffi.args[i]))
        => ffi.ret # "unit" /\ ffi.native = <<>>

\* A whole-millisecond value inside the range of the native long long:
\* -2^63 .. 2^63 - 1.
MillisFitNative(ts) ==
    IF ts.neg THEN MagLeq(ts.mag, <<32768, 0, 0, 0>>)
    ELSE MagLeq(ts.mag, <<32767, 65535, 65535, 65535>>)

\* C10: render_frame on a timestamp whose whole-millisecond value does not fit
\* the native integer returns None and does not panic, whatever the
\* change-detection slot holds.
C10_UnfitTimestampIsNone ==
    ffi.op = "render_frame" /\ ~MillisFitNative(ffi.args[1])
        => ffi.ret.value = "None" /\ ~ffi.panic

\* C10 witness: a render at 2^63 ms with the slot at DifferentContent returned
\* None.
C10_Witness ==
    /\ ffi.op = "render_frame"
    /\ ffi.args = <<Num(<<32768, 0, 0, 0>>), [some |-> TRUE, val |-> "DifferentContent"]>>
    /\ ffi.ret.value = "None"
    /\ ~ffi.panic

\* A render_frame call that reached ass_render_frame.
RenderCalled == ffi.op = "render_frame" /\ Len(ffi.native) = 1

\* The variants of ChangeDetection by native code 0, 1, 2.
VariantByCode == <<"Identical", "DifferentPositions", "DifferentContent">>

\* C11: on a render_frame call that reaches the native engine with the slot
\* present, the native call gets a non-null out-pointer holding the code of the
\* slot's prior value; when the engine leaves a code in 0..2 behind it the slot
\* ends as the variant of that code, and any other code makes the call panic
\* with the slot not overwritten. With the slot absent the out-pointer is null
\* and the slot stays absent.
C11_ChangeDetectionProtocol ==
    RenderCalled =>
        LET prior == ffi.args[2]
            out_ptr == ffi.native[1].args[4]
            code == ffi.native[1].reply.out_value
        IN  IF prior.some
            THEN /\ ~out_ptr.null
                 /\ VariantByCode[out_ptr.val + 1] = prior.val
                 /\ IF code \in 0..2
                    THEN /\ ~ffi.panic
                         /\ ffi.ret.detect_change =
                                [some |-> TRUE, val |-> VariantByCode[code + 1]]
                    ELSE /\ ffi.panic
                         /\ ffi.ret.detect_change = prior
            ELSE /\ out_ptr.null
                 /\ ~ffi.panic
                 /\ ffi.ret.detect_change = NoSlot

\* C11 witness: a slot at DifferentContent was overwritten with
\* DifferentPositions, the code 1 the engine wrote.
C11_Witness ==
    /\ RenderCalled
    /\ ffi.args[2] = [some |-> TRUE, val |-> "DifferentContent"]
    /\ ffi.native[1].args[4] = [null |-> FALSE, val |-> 2]
    /\ ffi.native[1].reply.out_value = 1
    /\ ffi.ret.detect_change = [some |-> TRUE, val |-> "DifferentPositions"]

\* A render_frame call that returned before reaching ass_render_frame.
RenderReturnedEarly == ffi.op = "render_frame" /\ ~MillisFitNative(ffi.args[1])

\* C21: a render_frame call on a timestamp that does not fit the native
\* integer makes no native call, and the change-detection slot it was given
\* holds afterwards exactly what it held before, present or absent; a call on
\* a timestamp that fits does reach ass_render_frame.
C21_EarlyReturnKeepsSlot ==
    ffi.op = "render_frame" =>
        IF RenderReturnedEarly
        THEN /\ ffi.native = <<>>
             /\ ffi.ret.detect_change = ffi.args[2]
        ELSE /\ Len(ffi.native) = 1
             /\ ffi.native[1].fn = "ass_render_frame"

\* C21 witness: a render at -2^63 - 1 ms with the slot at DifferentPositions
\* made no native call and left the slot at DifferentPositions.
C21_Witness ==
    /\ RenderReturnedEarly
    /\ ffi.args = <<Neg(<<32768, 0, 0, 1>>),
                    [some |-> TRUE, val |-> "DifferentPositions"]>>
    /\ ffi.native = <<>>
    /\ ffi.ret.detect_change = [some |-> TRUE, val |-> "DifferentPositions"]

\* ----------------------------------------------------- non-null handles
\* The null pointer among the native handles.
NullHandle == 0

\* C19: every live Library and every live Track holds a handle that is not
\* null: a null from ass_library_init or ass_new_track makes no value.
C19_LiveHandlesNonNull ==
    /\ \A l \in LibIds : libs[l].st = "live" => libs[l].lib # NullHandle
    /\ \A t \in TrackIds : tracks[t].st = "live" => tracks[t].track # NullHandle

\* Two Libraries are alive and the second has a live Track.
C19_Witness ==
    /\ \A l \in LibIds : l <= 2 => libs[l].st = "live" /\ libs[l].lib = l
    /\ \E t \in TrackIds :
          tracks[t].st = "live" /\ tracks[t].lib = 2 /\ tracks[t].track # NullHandle

\* ------------------------------------------------------ clear_fonts claim
DerivedAlive(l) ==
    \/ \E t \in TrackIds : tracks[t].st = "live" /\ tracks[t].lib = l
    \/ \E r \in RendIds : renderers[r].st = "live" /\ renderers[r].parent = l

ClearFontsStep ==
    /\ ffi' # ffi
    /\ ffi'.op = "clear_fonts"

\* C12: every step in which clear_fonts runs ass_clear_fonts starts in a
\* state where no Track and no Renderer derived from that Library is alive;
\* the call goes to that Library's own handle, the value handed back is the
\* same Library, and it is still alive (not released) after the step.
C12_ClearFontsUnborrowed ==
    [][ClearFontsStep =>
        LET l == ffi'.args[1] IN
        /\ libs[l].st = "live"
        /\ ~DerivedAlive(l)
        /\ ffi'.native = <<[fn |-> "ass_clear_fonts", lib |-> libs[l].lib]>>
        /\ ffi'.ret = libs[l]
        /\ libs'[l] = libs[l]
        /\ libDone' = libDone]_vars

\* A Library whose Track and Renderer have both been dropped has its fonts
\* cleared and is still alive.
C12_Witness ==
    /\ ffi.op = "clear_fonts"
    /\ libs[ffi.args[1]].st = "live"
    /\ libDone[ffi.ret.lib] = 0
    /\ \E t \in TrackIds : tracks[t].st = "dropped" /\ tracks[t].lib = ffi.args[1]
    /\ \E r \in RendIds : renderers[r].st = "dropped" /\ renderers[r].parent = ffi.args[1]

\* ------------------------------------------------------- ownership claims
\* Every Track and Renderer value made from Library l has been dropped, and the
\* native handle each of them wraps has been released.
BorrowersReleased(l) ==
    /\ \A t \in TrackIds : tracks[t].st # "unborn" /\ tracks[t].lib = l =>
            tracks[t].st = "dropped" /\ trackFree[tracks[t].track] >= 1
    /\ \A r \in RendIds : renderers[r].st # "unborn" /\ renderers[r].parent = l =>
            renderers[r].st = "dropped" /\ rendDone[renderers[r].renderer] >= 1

\* C1: in every sequence of create, newTrack, newRenderer, clone and drops, a
\* step that calls ass_library_done on a context is taken only when every
\* Track and Renderer created from that context has already been released.
C1_LibraryDoneAfterBorrowers ==
    [][\A l \in LibIds : libDone'[l] > libDone[l] => BorrowersReleased(l)]_vars

\* C1 witness: a context was released after a Track and a Renderer made from it.
C1_Witness ==
    \E l \in LibIds :
        /\ libDone[l] = 1
        /\ \E t \in TrackIds : tracks[t].st = "dropped" /\ tracks[t].lib = l
        /\ \E r \in RendIds : renderers[r].st = "dropped" /\ renderers[r].parent = l

\* C2: ass_renderer_done is called at most once on any native renderer handle,
\* whatever Renderer values are cloned and dropped.
C2_RendererDoneAtMostOnce ==
    \A h \in RendIds : rendDone[h] <= 1

\* C4: a live Library or Track has had no native release call, a dropped one
\* has had exactly one (ass_library_done, ass_free_track), and no native
\* library or track handle is ever released twice.
C4_ExactlyOneRelease ==
    /\ \A l \in LibIds :
        /\ libs[l].st = "unborn" => libDone[l] = 0
        /\ libs[l].st = "live" => libDone[libs[l].lib] = 0
        /\ libs[l].st = "dropped" => libDone[libs[l].lib] = 1
    /\ \A t \in TrackIds :
        /\ tracks[t].st = "unborn" => trackFree[t] = 0
        /\ tracks[t].st = "live" => trackFree[tracks[t].track] = 0
        /\ tracks[t].st = "dropped" => trackFree[tracks[t].track] = 1

\* C4 witness: a Library and a Track have both been dropped.
C4_Witness ==
    /\ \E l \in LibIds : libs[l].st = "dropped"
    /\ \E t \in TrackIds : tracks[t].st = "dropped"

====
